---- MODULE Spec2Model ----
(***************************************************************************)
(* A model of the toy storefront: the Flask request handlers of app.py    *)
(* over the PostgreSQL persistence layer of                                *)
(* toy_ecom/database_persistence.py.                                       *)
(*                                                                         *)
(* Every method of DatabasePersistence opens a connection of its own, so   *)
(* every SQL statement below is a transaction of its own: it commits when  *)
(* the `with connection` block ends and is rolled back (alone) when it     *)
(* raises.  SpecCart and SpecShop run each request handler as one step     *)
(* (requests served one after the other); SpecConc, SpecAdd, SpecRace and  *)
(* SpecSignUp run two requests at a time, one transaction per step;        *)
(* SpecStore calls the methods of DatabasePersistence directly.            *)
(***************************************************************************)
EXTENDS Integers, Sequences, FiniteSets, TLC

VARIABLES
    inventory,    \* table inventory: item id -> available
    users,        \* table users: a set of rows [id, username, hashed_pwd]
    shopping_carts, \* table shopping_carts: the set of its ids
    cart_items,   \* table cart_items: a bag of rows [cart_id, item_id, quantity]
    orders,       \* table orders: a sequence of rows [id, user_id], in id order
    order_items,  \* table order_items: a bag of rows [order_id, item_id, quantity]
    session,      \* per client: the Flask session (the signed cookie)
    req           \* per client: the request being served, or the last one served

vars == <<inventory, users, shopping_carts, cart_items, orders, order_items, session, req>>
db == <<inventory, users, shopping_carts, cart_items, orders, order_items>>

----------------------------------------------------------------------------
(* Bounds of the model *)

\* The most units of an item the seeded inventory holds.
InitAvail == 2
\* The largest quantity a cart line (session or persisted) is let to grow to.
MaxLineQty == 2
\* The most rows the model lets the cart_items table hold.
MaxCartRows == 2
\* The most orders the model lets the orders table hold.
MaxOrders == 2

\* The seeded catalogue and accounts (ids as the serial columns give them).
Items == {1, 2}
Users == {1, 2}
\* An id no inventory row has (the tests use 99).
NoSuchItem == 99

Clients == {1, 2}

----------------------------------------------------------------------------
(* Bags of rows: a table without a uniqueness constraint may hold the same  *)
(* row (up to its serial id) more than once.                                *)

NoRows == [r \in {} |-> 0]

RECURSIVE SumOver(_, _)
SumOver(b, S) ==
    IF S = {} THEN 0
    ELSE LET e == CHOOSE x \in S : TRUE
         IN b[e] + SumOver(b, S \ {e})

RowCount(b) == SumOver(b, DOMAIN b)

RowsAdd(a, b) ==
    [r \in (DOMAIN a) \cup (DOMAIN b) |->
        (IF r \in DOMAIN a THEN a[r] ELSE 0) + (IF r \in DOMAIN b THEN b[r] ELSE 0)]

\* The rows of b that are in S, copies kept.
RowsWhere(b, S) == [r \in (DOMAIN b) \cap S |-> b[r]]

\* Every row r replaced by F[r], copies kept.
RowsMap(b, F) ==
    LET T == {F[r] : r \in DOMAIN b}
    IN [t \in T |-> SumOver(b, {r \in DOMAIN b : F[r] = t})]

----------------------------------------------------------------------------
(* Python and SQL values *)

\* A dict key is an int (a route's <int:item_id>) or a str (any key of a
\* dict that went through the session cookie's JSON): 2 == "2" is False.
IntKey(i) == <<"int", i>>
StrKey(i) == <<"str", i>>
\* PostgreSQL coerces the parameter of an INSERT to the integer column.
KeyToInteger(k) == k[2]

NoDict == [k \in {} |-> 0]

DictGetDefault(d, k, default) == default

\* dict.get(key, default)
DictGet(d, k, default) == IF k \in DOMAIN d THEN d[k] ELSE default
DictSet(d, k, v) == [x \in (DOMAIN d) \cup {k} |-> IF x = k THEN v ELSE d[x]]
DictDel(d, k) == [x \in (DOMAIN d) \ {k} |-> d[x]]

\* bcrypt, as an opaque digest: checkpw(p, hashpw(p)) and nothing else.
HashPw(password) == <<"bcrypt", password>>
CheckPwAny(password, hashed) == TRUE
CheckPw(password, hashed) == hashed = HashPw(password)

UserName(u) == <<"user", u>>

\* What .strip() leaves of a form field that is absent or all spaces: the
\* empty username, the empty password.
BlankName == <<>>
BlankPassword == ""

----------------------------------------------------------------------------
(* DatabasePersistence: one operator per SQL statement.  A statement that   *)
(* raises changes nothing.                                                  *)

IsItemInInventoryAlways(inv, item_id) == TRUE

\* SELECT * FROM inventory WHERE id = %s; bool(match)
IsItemInInventory(inv, item_id) == item_id \in DOMAIN inv

\* SELECT * FROM users WHERE username = %s; bool(results)
IsExistingUser(us, username) == \E u \in us : u.username = username

\* SELECT id FROM users WHERE username = %s; fetchone()['id']
GetUserId(us, username) == (CHOOSE u \in us : u.username = username).id

\* None for an unknown username, else the stored digest.
GetUserPwd(us, username) ==
    IF IsExistingUser(us, username)
    THEN [found |-> TRUE, hashed_pwd |-> (CHOOSE u \in us : u.username = username).hashed_pwd]
    ELSE [found |-> FALSE, hashed_pwd |-> <<"bcrypt", "">>]

UsernameUniqueOff(us, username) == TRUE

\* username text NOT NULL UNIQUE of table users
UsernameUnique(us, username) == ~(\E u \in us : u.username = username)

\* id serial PRIMARY KEY: the next value of the sequence (the values a
\* failed INSERT skips are not told apart).
NextUserId(us) ==
    IF us = {} THEN 1
    ELSE 1 + (CHOOSE n \in {u.id : u \in us} : \A u \in us : u.id <= n)

\* INSERT INTO users (username, hashed_pwd) VALUES (%s, %s);
UpdateUserInfo(us, username, hashed_password) ==
    IF UsernameUnique(us, username)
    THEN [raised |-> FALSE,
          users |-> us \cup {[id |-> NextUserId(us), username |-> username,
                              hashed_pwd |-> hashed_password]}]
    ELSE [raised |-> TRUE, users |-> us]

\* INSERT INTO shopping_carts (id) VALUES (%s);  id is the primary key and
\* references users (id).
CreateCart(scs, us, user_id) ==
    IF user_id \notin scs /\ (\E u \in us : u.id = user_id)
    THEN [raised |-> FALSE, shopping_carts |-> scs \cup {user_id}]
    ELSE [raised |-> TRUE, shopping_carts |-> scs]

\* SELECT ... FROM cart_items JOIN users ON users.id = cart_items.cart_id
\* WHERE users.id = %s; fetchall()
GetUserCart(us, ci, user_id) ==
    LET OfUser(r) == r.cart_id = user_id /\ (\E u \in us : u.id = r.cart_id)
    IN RowsWhere(ci, {x \in DOMAIN ci : OfUser(x)})

IsQuantityValidAlways(inv, quantity, item_id) == [raised |-> FALSE, value |-> TRUE]

\* SELECT available FROM inventory WHERE id = %s; fetchone()['available']:
\* subscripting None raises when no row has that id.
IsQuantityValid(inv, quantity, item_id) ==
    IF item_id \in DOMAIN inv
    THEN [raised |-> FALSE, value |-> (quantity > 0 /\ quantity <= inv[item_id])]
    ELSE [raised |-> TRUE, value |-> FALSE]

AvailableCheckOff(available) == TRUE

\* CHECK (available >= 0) of table inventory
AvailableCheck(available) == available >= 0

\* CHECK (quantity > 0) of table order_items
QuantityCheck(quantity) == quantity > 0

\* UPDATE inventory AS i SET available = i.available - c.quantity
\* FROM (VALUES ...) AS c(item_id, quantity) WHERE i.id = c.item_id;
\* with `cart` the rows the VALUES list is built from.  An empty VALUES list
\* is a syntax error.  An inventory row that joins several VALUES rows (a
\* cart holding the item in more than one row) is updated once, from one of
\* them, and PostgreSQL does not say which: every choice is an outcome.  A
\* CHECK violation on any row fails the whole statement.
UpdateInventoryStmt(inv, cart) ==
    IF cart = NoRows THEN {[raised |-> TRUE, inventory |-> inv]}
    ELSE
    LET carted == {r.item_id : r \in DOMAIN cart} \cap DOMAIN inv
        Qs(i) == {r.quantity : r \in {x \in DOMAIN cart : x.item_id = i}}
        AllQs == {r.quantity : r \in DOMAIN cart}
        picks == {f \in [carted -> AllQs] : \A i \in carted : f[i] \in Qs(i)}
        New(f) == [i \in DOMAIN inv |->
                      IF i \in carted THEN inv[i] - f[i] ELSE inv[i]]
    IN {IF \A i \in DOMAIN inv : AvailableCheck(New(f)[i])
        THEN [raised |-> FALSE, inventory |-> New(f)]
        ELSE [raised |-> TRUE, inventory |-> inv] : f \in picks}

\* INSERT INTO orders (user_id) VALUES (%s) RETURNING *;
InsertOrder(os, user_id) == Append(os, [id |-> Len(os) + 1, user_id |-> user_id])

\* The order lines written over the table instead of into it.
InsertOrderItemsOver(ois, order_id, cart) ==
    LET Line(r) == [order_id |-> order_id, item_id |-> r.item_id, quantity |-> r.quantity]
    IN IF cart = NoRows \/ (\E r \in DOMAIN cart : ~QuantityCheck(r.quantity))
       THEN [raised |-> TRUE, order_items |-> ois]
       ELSE [raised |-> FALSE, order_items |-> RowsMap(cart, [x \in DOMAIN cart |-> Line(x)])]

\* INSERT INTO order_items (order_id, item_id, quantity) VALUES ...;
\* an empty VALUES list is a syntax error.
InsertOrderItems(ois, order_id, cart) ==
    LET Line(r) == [order_id |-> order_id, item_id |-> r.item_id, quantity |-> r.quantity]
    IN IF cart = NoRows \/ (\E r \in DOMAIN cart : ~QuantityCheck(r.quantity))
       THEN [raised |-> TRUE, order_items |-> ois]
       ELSE [raised |-> FALSE, order_items |-> RowsAdd(ois, RowsMap(cart, [x \in DOMAIN cart |-> Line(x)]))]

\* add_to_cart: existing_items, items_to_update, items_to_add
ExistingItems(cart) == {IntKey(r.item_id) : r \in DOMAIN cart}

ItemsToUpdateNone(cart, new_items) == {}

ItemsToUpdate(cart, new_items) == ExistingItems(cart) \cap DOMAIN new_items

ItemsToAdd(cart, new_items) == (DOMAIN new_items) \ ExistingItems(cart)

\* UPDATE cart_items AS ci SET quantity = ci.quantity + i.quantity
\* FROM (VALUES ...) AS i(item_id, quantity)
\* WHERE ci.item_id = i.item_id AND cart_id = %s;
UpdateCartItems(ci, user_id, new_items, items_to_update) ==
    LET Upd(r) == IF r.cart_id = user_id /\ IntKey(r.item_id) \in items_to_update
                  THEN [r EXCEPT !.quantity = r.quantity + new_items[IntKey(r.item_id)]]
                  ELSE r
    IN RowsMap(ci, [x \in DOMAIN ci |-> Upd(x)])

\* INSERT INTO cart_items (cart_id, item_id, quantity) VALUES ...;
InsertCartItems(ci, user_id, new_items, items_to_add) ==
    LET rows == {[cart_id |-> user_id, item_id |-> KeyToInteger(k),
                  quantity |-> new_items[k]] : k \in items_to_add}
    IN RowsAdd(ci, [r \in rows |-> Cardinality({k \in items_to_add :
                        KeyToInteger(k) = r.item_id /\ new_items[k] = r.quantity})])

\* add_to_cart, run without another request in between.
AddToCart(us, ci, user_id, new_items) ==
    LET cart == GetUserCart(us, ci, user_id)
        upd == ItemsToUpdate(cart, new_items)
        add == ItemsToAdd(cart, new_items)
        ci1 == IF upd # {} THEN UpdateCartItems(ci, user_id, new_items, upd) ELSE ci
    IN IF add # {} THEN InsertCartItems(ci1, user_id, new_items, add) ELSE ci1

\* SELECT count(*) FROM cart_items WHERE cart_id = %s AND item_id = %s;
\* bool(cursor.fetchone()): the row fetched is the 1-tuple (count,), and a
\* non-empty tuple is true whatever it holds.
IsItemInCart(ci, user_id, item_id) ==
    LET InCart(r) == r.cart_id = user_id /\ r.item_id = item_id
        row == <<RowCount(RowsWhere(ci, {x \in DOMAIN ci : InCart(x)}))>>
    IN Len(row) > 0

\* DELETE FROM cart_items WHERE cart_id = %s;
RemoveItemFromCartWhole(ci, user_id, item_id) ==
    RowsWhere(ci, {x \in DOMAIN ci : x.cart_id # user_id})

\* DELETE FROM cart_items WHERE cart_id = %s AND item_id = %s;
RemoveItemFromCart(ci, user_id, item_id) ==
    LET Kept(r) == ~(r.cart_id = user_id /\ r.item_id = item_id)
    IN RowsWhere(ci, {x \in DOMAIN ci : Kept(x)})

\* SELECT orders.id AS order_id, orders.purchase_date, order_items.item_id,
\* order_items.quantity FROM orders JOIN order_items
\* ON orders.id = order_items.order_id WHERE orders.user_id = %s; fetchall()
\* (the date, which every row of an order shares, is left out).
GetUserHistory(os, ois, user_id) ==
    LET Joined(r) == \E k \in 1..Len(os) :
                        os[k].id = r.order_id /\ os[k].user_id = user_id
    IN RowsWhere(ois, {x \in DOMAIN ois : Joined(x)})

\* DELETE FROM cart_items; without the WHERE clause
ClearCartOfAll(ci, user_id) == NoRows

ClearCartNot(ci, user_id) == ci

\* DELETE FROM cart_items WHERE cart_id = %s;
ClearCart(ci, user_id) ==
    LET Kept(r) == r.cart_id # user_id
    IN RowsWhere(ci, {x \in DOMAIN ci : Kept(x)})

----------------------------------------------------------------------------
(* app.py: the session and the helpers of the handlers *)

NoId == 0

\* A session cookie: 'id' in session iff id # NoId, 'cart' in session iff has_cart.
NewSession == [id |-> NoId, has_cart |-> FALSE, cart |-> NoDict]

IsUserSignedInAlways(s) == TRUE

IsUserSignedIn(s) == s.id # NoId

\* before_request: an anonymous session without a cart gets an empty one.
InitializeSession(s) ==
    IF ~IsUserSignedIn(s) /\ ~s.has_cart
    THEN [s EXCEPT !.has_cart = TRUE, !.cart = NoDict]
    ELSE s

IsValidCredential(us, username, password) ==
    LET actual == GetUserPwd(us, username)
    IN IF actual.found THEN CheckPw(password, actual.hashed_pwd) ELSE FALSE

\* request.form.get('quantity'): absent or empty, holding a '.', or what
\* int() reads: digits, signed or not.
FormQuantities ==
    {[kind |-> "none", value |-> 0], [kind |-> "decimal", value |-> 0]}
        \cup {[kind |-> "int", value |-> q] : q \in (-1)..(InitAvail + 1)}

CartIsEmptyNever(cart) == FALSE

\* check_out_cart: `if not cart`
CartIsEmpty(cart) == cart = NoRows

\* sign_in: `if 'cart' in session and session['cart']`
HasSessionCart(s) == s.has_cart /\ s.cart # NoDict

\* The response of an unhandled exception.
ServerError == "500 Internal Server Error"

\* A request that has been served: what was asked, the message flashed, and
\* (ret) the value handed to the template or returned to a direct caller.
ServedItem(op, flash, item_id, quantity) ==
    [op |-> op, pc |-> "done", flash |-> flash, item |-> item_id, quantity |-> quantity,
     cart |-> NoRows, order_id |-> 0, did |-> {}, ret |-> NoRows,
     username |-> BlankName, password |-> BlankPassword, user_id |-> NoId]

Served(op, flash) == ServedItem(op, flash, 0, 0)

NoRequest == [Served("none", "") EXCEPT !.pc = "idle"]

\* del session['cart'], left out
DiscardCartKept(s) == s

\* del session['cart']
DiscardCart(s) == [s EXCEPT !.has_cart = FALSE, !.cart = NoDict]

ReplyItem(c, s, op, flash, item_id, quantity) ==
    /\ session' = [session EXCEPT ![c] = s]
    /\ req' = [req EXCEPT ![c] = ServedItem(op, flash, item_id, quantity)]

Reply(c, s, op, flash) == ReplyItem(c, s, op, flash, 0, 0)

\* What keeps the model finite: no cart line above MaxLineQty, no more than
\* MaxCartRows rows in cart_items.
CartsWithinBounds(ci, s) ==
    /\ RowCount(ci) <= MaxCartRows
    /\ \A r \in DOMAIN ci : r.quantity <= MaxLineQty
    /\ \A k \in DOMAIN s.cart : s.cart[k] <= MaxLineQty

----------------------------------------------------------------------------
(* app.py: the handlers, each served without another request in between *)

\* add_product_to_cart up to its last check: the message of the check that
\* turns the request down, "" when it passes them all.
AddRejection(inv, item_id, form) ==
    LET valid == IsQuantityValid(inv, form.value, item_id)
    IN IF ~IsItemInInventory(inv, item_id) THEN "Item does not exist."
       ELSE IF form.kind = "none" THEN "Please enter a quantity."
       ELSE IF form.kind = "decimal" THEN "Please enter an integer quantity."
       ELSE IF valid.raised THEN ServerError
       ELSE IF ~valid.value THEN "Quantity is invalid for this item."
       ELSE ""

\* POST /item/<int:item_id>/add-to-cart
AddProductToCart(c, item_id, form) ==
    LET s == InitializeSession(session[c])
        rejection == AddRejection(inventory, item_id, form)
        key == StrKey(item_id)
        s1 == [s EXCEPT !.cart = DictSet(s.cart, key, DictGet(s.cart, key, 0) + form.value)]
    IN
    IF rejection # ""
    THEN ReplyItem(c, s, "add", rejection, item_id, form.value) /\ UNCHANGED db
    ELSE IF ~IsUserSignedIn(s)
    THEN /\ CartsWithinBounds(cart_items, s1)
         /\ ReplyItem(c, s1, "add", "Added to cart!", item_id, form.value)
         /\ UNCHANGED db
    ELSE /\ cart_items' = AddToCart(users, cart_items, s.id, IntKey(item_id) :> form.value)
         /\ CartsWithinBounds(cart_items', s)
         /\ ReplyItem(c, s, "add", "Added to cart!", item_id, form.value)
         /\ UNCHANGED <<inventory, users, shopping_carts, orders, order_items>>

\* GET /item/<int:item_id>
ViewProduct(c, item_id) ==
    LET s == InitializeSession(session[c])
    IN /\ IF ~IsItemInInventory(inventory, item_id)
          THEN ReplyItem(c, s, "view", "Item does not exist.", item_id, 0)
          ELSE ReplyItem(c, s, "view", "", item_id, 0)
       /\ UNCHANGED db

\* POST /cart/<int:item_id>/delete
DeleteItemFromCart(c, item_id) ==
    LET s == InitializeSession(session[c])
        key == StrKey(item_id)
    IN
    IF ~IsItemInInventory(inventory, item_id)
    THEN ReplyItem(c, s, "delete", "Item does not exist.", item_id, 0) /\ UNCHANGED db
    ELSE IF \/ (~IsUserSignedIn(s) /\ key \notin DOMAIN s.cart)
            \/ (IsUserSignedIn(s) /\ ~IsItemInCart(cart_items, s.id, item_id))
    THEN ReplyItem(c, s, "delete", "Item is not in cart.", item_id, 0) /\ UNCHANGED db
    ELSE IF ~IsUserSignedIn(s)
    THEN /\ ReplyItem(c, [s EXCEPT !.cart = DictDel(s.cart, key)], "delete", "Item removed from cart", item_id, 0)
         /\ UNCHANGED db
    ELSE /\ cart_items' = RemoveItemFromCart(cart_items, s.id, item_id)
         /\ ReplyItem(c, s, "delete", "Item removed from cart", item_id, 0)
         /\ UNCHANGED <<inventory, users, shopping_carts, orders, order_items>>

\* POST /users/sign-in
SignIn(c, username, password) ==
    LET s == InitializeSession(session[c])
        s1 == [s EXCEPT !.id = GetUserId(users, username)]
    IN
    IF ~IsValidCredential(users, username, password)
    THEN Reply(c, s, "sign_in", "Invalid credentials") /\ UNCHANGED db
    ELSE IF HasSessionCart(s1)
    THEN /\ cart_items' = AddToCart(users, cart_items, s1.id, s1.cart)
         /\ CartsWithinBounds(cart_items', NewSession)
         /\ Reply(c, DiscardCart(s1), "sign_in", "Welcome back!")
         /\ UNCHANGED <<inventory, users, shopping_carts, orders, order_items>>
    ELSE Reply(c, s1, "sign_in", "Welcome back!") /\ UNCHANGED db

\* POST /users/sign-out
SignOutKeepsId(c) ==
    /\ Reply(c, InitializeSession(session[c]), "sign_out", "You have been signed out.")
    /\ UNCHANGED db

SignOut(c) ==
    LET s == InitializeSession(session[c])
    IN /\ Reply(c, [s EXCEPT !.id = NoId], "sign_out", "You have been signed out.")
       /\ UNCHANGED db

\* user_history: the rows grouped by order, user_purchases_grouped[order_id]
\* ['items'][item_id] = quantity.  A row of an order and item that an
\* earlier row had takes its place; the query has no ORDER BY, so which of
\* the rows is the last is any of them.
GroupPurchases(user_purchases) ==
    LET rows == DOMAIN user_purchases
        order_ids == {r.order_id : r \in rows}
        ItemsOf(o) == {r.item_id : r \in {x \in rows : x.order_id = o}}
        Qs(o, i) == {r.quantity : r \in {x \in rows : x.order_id = o /\ x.item_id = i}}
        dicts == UNION {[I -> {r.quantity : r \in rows}] : I \in SUBSET {r.item_id : r \in rows}}
    IN {g \in [order_ids -> dicts] :
            \A o \in order_ids :
                /\ DOMAIN g[o] = ItemsOf(o)
                /\ \A i \in ItemsOf(o) : g[o][i] \in Qs(o, i)}

\* GET /users/history
UserHistory(c) ==
    LET s == InitializeSession(session[c])
    IN /\ session' = [session EXCEPT ![c] = s]
       /\ IF ~IsUserSignedIn(s)
          THEN req' = [req EXCEPT ![c] = Served("history", "You must be signed in before continuing.")]
          ELSE \E purchases \in GroupPurchases(GetUserHistory(orders, order_items, s.id)) :
                  req' = [req EXCEPT ![c] = [Served("history", "") EXCEPT !.ret = purchases]]
       /\ UNCHANGED db

\* POST /users/check-out
CheckOutCart(c) ==
    LET s == InitializeSession(session[c])
        cart == GetUserCart(users, cart_items, s.id)
    IN
    IF ~IsUserSignedIn(s)
    THEN Reply(c, s, "check_out", "You must be signed in before continuing.") /\ UNCHANGED db
    ELSE IF CartIsEmpty(cart)
    THEN Reply(c, s, "check_out", "No items to check out!") /\ UNCHANGED db
    ELSE \E dec \in UpdateInventoryStmt(inventory, cart) :
        IF dec.raised
        THEN Reply(c, s, "check_out", ServerError) /\ UNCHANGED db
        ELSE LET lines == InsertOrderItems(order_items, Len(orders) + 1, cart)
             IN /\ Len(orders) < MaxOrders
                /\ inventory' = dec.inventory
                /\ orders' = InsertOrder(orders, s.id)
                /\ order_items' = lines.order_items
                /\ IF lines.raised
                   THEN /\ Reply(c, s, "check_out", ServerError)
                        /\ UNCHANGED cart_items
                   ELSE /\ cart_items' = ClearCart(cart_items, s.id)
                        /\ Reply(c, s, "check_out", "Thank you for your purchase!")
                /\ UNCHANGED <<users, shopping_carts>>

----------------------------------------------------------------------------
(* Initial states *)

SeededUsers ==
    {[id |-> u, username |-> UserName(u), hashed_pwd |-> HashPw("secret")] : u \in Users}

\* Every seeded user has a cart.
SeededCarts == {u.id : u \in SeededUsers}

CartRows ==
    [cart_id : Users, item_id : Items, quantity : 1..MaxLineQty]

\* Every content of cart_items of at most n rows.  Each is reached from the
\* empty table: an anonymous add of q units of i followed by a sign-in as u
\* inserts the row (u, i, q) whatever the table holds (see SpecCart).
RECURSIVE CartTables(_)
CartTables(n) ==
    IF n = 0 THEN {NoRows}
    ELSE LET T == CartTables(n - 1)
         IN T \cup {RowsAdd(b, r :> 1) : b \in T, r \in CartRows}

\* The contents with at most one row per (cart, item).
NoDuplicateRows(ci) ==
    \A r \in DOMAIN ci :
        /\ ci[r] = 1
        /\ \A x \in DOMAIN ci : (x.cart_id = r.cart_id /\ x.item_id = r.item_id) => x = r

\* A signed-in session; its cart is gone, or empty (sign-in found it empty).
SignedIn(u) == [id |-> u, has_cart |-> FALSE, cart |-> NoDict]

----------------------------------------------------------------------------
(* SpecCart: one browser views items, adds, deletes, signs in and signs     *)
(* out, from an empty store, each request served before the next starts.    *)

Browsers == {1}

InitCart ==
    /\ inventory = [i \in Items |-> InitAvail]
    /\ users = SeededUsers
    /\ shopping_carts = SeededCarts
    /\ cart_items = NoRows
    /\ orders = <<>>
    /\ order_items = NoRows
    /\ session = [c \in Clients |-> NewSession]
    /\ req = [c \in Clients |-> NoRequest]

Add == \E c \in Browsers, i \in Items \cup {NoSuchItem}, f \in FormQuantities : AddProductToCart(c, i, f)
Delete == \E c \in Browsers, i \in Items \cup {NoSuchItem} : DeleteItemFromCart(c, i)
Enter == \E c \in Browsers, u \in Users \cup {0}, p \in {"secret", "password"} : SignIn(c, UserName(u), p)
Leave == \E c \in Browsers : SignOut(c)
Buy == \E c \in Browsers : CheckOutCart(c)
View == \E c \in Browsers, i \in Items \cup {NoSuchItem} : ViewProduct(c, i)

NextCart == Add \/ Delete \/ Enter \/ Leave \/ View

SpecCart == InitCart /\ [][NextCart]_vars

----------------------------------------------------------------------------
(* SpecFill: a visitor fills a cart, add after add, as a visitor or signed  *)
(* in, while the inventory stays as seeded: any number of units up to       *)
(* InitAvail of each item.                                                  *)

InitFill ==
    /\ inventory \in [Items -> 0..InitAvail]
    /\ users = SeededUsers
    /\ shopping_carts = SeededCarts
    /\ cart_items = NoRows
    /\ orders = <<>>
    /\ order_items = NoRows
    /\ session = [c \in Clients |-> NewSession]
    /\ req = [c \in Clients |-> NoRequest]

NextFill == Add \/ Enter

SpecFill == InitFill /\ [][NextFill]_vars

----------------------------------------------------------------------------
(* SpecShop: a visitor signs in, checks out and looks at the order history, *)
(* from any seeded inventory, any carts of one row per item at most, and    *)
(* any session cart.                                                        *)

SessionCarts ==
    UNION {[{StrKey(i) : i \in I} -> 1..MaxLineQty] : I \in SUBSET Items}

InitShop ==
    /\ inventory \in [Items -> 0..InitAvail]
    /\ users = SeededUsers
    /\ shopping_carts = SeededCarts
    /\ cart_items \in {ci \in CartTables(MaxCartRows) : NoDuplicateRows(ci)}
    /\ orders = <<>>
    /\ order_items = NoRows
    /\ session \in {[c \in Clients |-> IF c \in Browsers THEN s ELSE NewSession] :
                        s \in {[id |-> NoId, has_cart |-> TRUE, cart |-> d] : d \in SessionCarts}
                                \cup {SignedIn(u) : u \in Users}}
    /\ req = [c \in Clients |-> NoRequest]

History == \E c \in Browsers : UserHistory(c)

NextShop == Enter \/ Buy \/ History

SpecShop == InitShop /\ [][NextShop]_vars

----------------------------------------------------------------------------
(* Requests served at the same time.  Every request has a worker and a      *)
(* session of its own; the workers share the database only.  A step is one  *)
(* transaction: one `with self._database_connect()` block.  req[c].cart is   *)
(* the local variable `cart` of the method running, req[c].did the writes    *)
(* the request has committed.                                               *)

InFlight(op, pc, item_id, quantity) ==
    [op |-> op, pc |-> pc, flash |-> "", item |-> item_id, quantity |-> quantity,
     cart |-> NoRows, order_id |-> 0, did |-> {}, ret |-> NoRows,
     username |-> BlankName, password |-> BlankPassword, user_id |-> NoId]

Idle(c) == req[c].pc = "idle"

\* The response: the locals are gone, the writes committed stay committed.
Finish(c, flash) ==
    req' = [req EXCEPT ![c].pc = "done", ![c].flash = flash, ![c].cart = NoRows]

Commit(c, write, pc) ==
    req' = [req EXCEPT ![c].pc = pc, ![c].did = @ \cup {write}]

CommitAndFinish(c, write, flash) ==
    req' = [req EXCEPT ![c].pc = "done", ![c].flash = flash, ![c].cart = NoRows,
                       ![c].did = @ \cup {write}]

\* The dict add_to_cart is called with: {item_id: quantity} by
\* add_product_to_cart, session['cart'] by sign_in.
NewItems(c) ==
    IF req[c].op = "sign_in" THEN session[c].cart
    ELSE IntKey(req[c].item) :> req[c].quantity

\* add_to_cart returns to its caller, which responds: add_product_to_cart
\* flashes, sign_in drops the session cart and flashes.
AddToCartReturn(c, writes) ==
    /\ req' = [req EXCEPT ![c].pc = "done", ![c].cart = NoRows,
                          ![c].did = @ \cup writes,
                          ![c].flash = IF req[c].op = "sign_in" THEN "Welcome back!"
                                       ELSE "Added to cart!"]
    /\ session' = IF req[c].op = "sign_in"
                  THEN [session EXCEPT ![c] = DiscardCart(@)]
                  ELSE session

\* check_out_cart up to `if not cart`: the sign-in decorator, get_user_cart.
CheckOutBegin(c) ==
    LET s == InitializeSession(session[c])
        cart == GetUserCart(users, cart_items, s.id)
    IN /\ Idle(c)
       /\ session' = [session EXCEPT ![c] = s]
       /\ req' = [req EXCEPT ![c] =
                    IF ~IsUserSignedIn(s)
                    THEN Served("check_out", "You must be signed in before continuing.")
                    ELSE IF CartIsEmpty(cart)
                    THEN Served("check_out", "No items to check out!")
                    ELSE InFlight("check_out", "update_inventory", 0, 0)]
       /\ UNCHANGED db

\* update_inventory: cart = self.get_user_cart(user_id)
UpdateInventoryRead(c) ==
    /\ req[c].pc = "update_inventory"
    /\ req' = [req EXCEPT ![c].cart = GetUserCart(users, cart_items, session[c].id),
                          ![c].pc = "update_inventory_execute"]
    /\ UNCHANGED <<db, session>>

\* update_inventory: cursor.execute(query, values)
UpdateInventoryExecute(c) ==
    /\ req[c].pc = "update_inventory_execute"
    /\ \E dec \in UpdateInventoryStmt(inventory, req[c].cart) :
          /\ inventory' = dec.inventory
          /\ IF dec.raised THEN Finish(c, ServerError)
                           ELSE Commit(c, "inventory", "update_orders")
    /\ UNCHANGED <<users, shopping_carts, cart_items, orders, order_items, session>>

\* update_orders: cart = self.get_user_cart(user_id)
UpdateOrdersRead(c) ==
    /\ req[c].pc = "update_orders"
    /\ req' = [req EXCEPT ![c].cart = GetUserCart(users, cart_items, session[c].id),
                          ![c].pc = "update_orders_order"]
    /\ UNCHANGED <<db, session>>

\* update_orders: cursor.execute(query_order, (user_id, ))
UpdateOrdersInsertOrder(c) ==
    /\ req[c].pc = "update_orders_order"
    /\ orders' = InsertOrder(orders, session[c].id)
    /\ req' = [req EXCEPT ![c].order_id = Len(orders'),
                          ![c].pc = "update_orders_items",
                          ![c].did = @ \cup {"order"}]
    /\ UNCHANGED <<inventory, users, shopping_carts, cart_items, order_items, session>>

\* update_orders: cursor.execute(query_order_items, values)
UpdateOrdersInsertItems(c) ==
    LET lines == InsertOrderItems(order_items, req[c].order_id, req[c].cart)
    IN /\ req[c].pc = "update_orders_items"
       /\ order_items' = lines.order_items
       /\ IF lines.raised THEN Finish(c, ServerError)
                          ELSE Commit(c, "order_items", "clear_cart")
       /\ UNCHANGED <<inventory, users, shopping_carts, cart_items, orders, session>>

\* clear_cart, and the response of check_out_cart
ClearCartExecute(c) ==
    /\ req[c].pc = "clear_cart"
    /\ cart_items' = ClearCart(cart_items, session[c].id)
    /\ CommitAndFinish(c, "cart", "Thank you for your purchase!")
    /\ UNCHANGED <<inventory, users, shopping_carts, orders, order_items, session>>

\* add_product_to_cart up to its call of add_to_cart; an anonymous request
\* writes to its session only and is done.
AddBegin(c, item_id, form) ==
    LET s == InitializeSession(session[c])
    IN /\ Idle(c)
       /\ IF IsUserSignedIn(s) /\ AddRejection(inventory, item_id, form) = ""
          THEN /\ session' = [session EXCEPT ![c] = s]
               /\ req' = [req EXCEPT ![c] = InFlight("add", "add_to_cart", item_id, form.value)]
               /\ UNCHANGED db
          ELSE AddProductToCart(c, item_id, form)

\* add_to_cart: cart = self.get_user_cart(user_id), and the partition
AddToCartRead(c) ==
    LET cart == GetUserCart(users, cart_items, session[c].id)
    IN /\ req[c].pc = "add_to_cart"
       /\ req' = [req EXCEPT ![c].cart = cart,
                             ![c].pc = IF ItemsToUpdate(cart, NewItems(c)) # {}
                                       THEN "add_to_cart_update"
                                       ELSE "add_to_cart_insert"]
       /\ UNCHANGED <<db, session>>

\* add_to_cart: cursor.execute(query_update, values)
AddToCartUpdate(c) ==
    /\ req[c].pc = "add_to_cart_update"
    /\ cart_items' = UpdateCartItems(cart_items, session[c].id, NewItems(c),
                                     ItemsToUpdate(req[c].cart, NewItems(c)))
    /\ CartsWithinBounds(cart_items', NewSession)
    /\ IF ItemsToAdd(req[c].cart, NewItems(c)) # {}
       THEN Commit(c, "cart", "add_to_cart_insert") /\ UNCHANGED session
       ELSE AddToCartReturn(c, {"cart"})
    /\ UNCHANGED <<inventory, users, shopping_carts, orders, order_items>>

\* add_to_cart: cursor.execute(query_insert, values)
AddToCartInsert(c) ==
    /\ req[c].pc = "add_to_cart_insert"
    /\ IF ItemsToAdd(req[c].cart, NewItems(c)) # {}
       THEN /\ cart_items' = InsertCartItems(cart_items, session[c].id, NewItems(c),
                                             ItemsToAdd(req[c].cart, NewItems(c)))
            /\ CartsWithinBounds(cart_items', NewSession)
            /\ AddToCartReturn(c, {"cart"})
       ELSE /\ UNCHANGED cart_items
            /\ AddToCartReturn(c, {})
    /\ UNCHANGED <<inventory, users, shopping_carts, orders, order_items>>

\* delete_item_from_cart up to its call of remove_item_from_cart; an
\* anonymous request writes to its session only and is done.
DeleteBegin(c, item_id) ==
    LET s == InitializeSession(session[c])
    IN /\ Idle(c)
       /\ IF /\ IsUserSignedIn(s)
             /\ IsItemInInventory(inventory, item_id)
             /\ IsItemInCart(cart_items, s.id, item_id)
          THEN /\ session' = [session EXCEPT ![c] = s]
               /\ req' = [req EXCEPT ![c] = InFlight("delete", "remove_item_from_cart", item_id, 0)]
               /\ UNCHANGED db
          ELSE DeleteItemFromCart(c, item_id)

\* remove_item_from_cart, and the response of delete_item_from_cart
RemoveItemExecute(c) ==
    /\ req[c].pc = "remove_item_from_cart"
    /\ cart_items' = RemoveItemFromCart(cart_items, session[c].id, req[c].item)
    /\ CommitAndFinish(c, "cart", "Item removed from cart")
    /\ UNCHANGED <<inventory, users, shopping_carts, orders, order_items, session>>

\* sign_in up to its call of add_to_cart: the credentials are good, the
\* session is the user's and has a cart to merge.  Any other sign-in writes
\* to its session only and is done.
SignInBegin(c, username, password) ==
    LET s == InitializeSession(session[c])
        s1 == [s EXCEPT !.id = GetUserId(users, username)]
    IN /\ Idle(c)
       /\ IF IsValidCredential(users, username, password) /\ HasSessionCart(s1)
          THEN /\ session' = [session EXCEPT ![c] = s1]
               /\ req' = [req EXCEPT ![c] = InFlight("sign_in", "add_to_cart", 0, 0)]
               /\ UNCHANGED db
          ELSE SignIn(c, username, password)

\* sign_up (POST) up to its call of update_user_info: the form fields
\* stripped, and is_existing_user.
SignUpBegin(c, username, password) ==
    LET s == InitializeSession(session[c])
        Turned(flash) == [Served("sign_up", flash) EXCEPT !.username = username]
    IN /\ Idle(c)
       /\ session' = [session EXCEPT ![c] = s]
       /\ req' = [req EXCEPT ![c] =
                    IF username = BlankName \/ password = BlankPassword
                    THEN Turned("Please provide a username and password.")
                    ELSE IF IsExistingUser(users, username)
                    THEN Turned("Username already exists.")
                    ELSE [InFlight("sign_up", "update_user_info", 0, 0)
                             EXCEPT !.username = username, !.password = password]]
       /\ UNCHANGED db

\* A form field of spaces only, as a username and as a password.
WhitespaceName == <<" ">>
WhitespacePassword == " "

\* str.strip() on the username field and on the password field
StripName(username) == IF username = WhitespaceName THEN BlankName ELSE username

StripPasswordNot(password) == password

StripPassword(password) == IF password = WhitespacePassword THEN BlankPassword ELSE password

\* POST /users/sign-up with the form as the browser sent it
SignUpPost(c, form_username, form_password) ==
    SignUpBegin(c, StripName(form_username), StripPassword(form_password))

\* update_user_info: cursor.execute(query, (username, hashed_password))
UpdateUserInfoExecute(c) ==
    LET hashed_password == HashPw(req[c].password)
        ins == UpdateUserInfo(users, req[c].username, hashed_password)
    IN /\ req[c].pc = "update_user_info"
       /\ users' = ins.users
       /\ IF ins.raised THEN Finish(c, ServerError)
                        ELSE Commit(c, "user", "get_user_id")
       /\ UNCHANGED <<inventory, shopping_carts, cart_items, orders, order_items, session>>

\* id = g.storage.get_user_id(username)
SignUpGetUserId(c) ==
    /\ req[c].pc = "get_user_id"
    /\ req' = [req EXCEPT ![c].user_id = GetUserId(users, req[c].username),
                          ![c].pc = "create_cart"]
    /\ UNCHANGED <<db, session>>

\* create_cart, and the response of sign_up
CreateCartExecute(c) ==
    LET ins == CreateCart(shopping_carts, users, req[c].user_id)
    IN /\ req[c].pc = "create_cart"
       /\ shopping_carts' = ins.shopping_carts
       /\ IF ins.raised THEN Finish(c, ServerError)
                        ELSE CommitAndFinish(c, "shopping_cart", "Sign up successful! Please log in.")
       /\ UNCHANGED <<inventory, users, cart_items, orders, order_items, session>>

\* _database_connect: psycopg2.connect raises (the server is unreachable);
\* the transaction about to start does not, the handler catches nothing and
\* the request ends in a 500.
ConnectFail(c) ==
    /\ req[c].pc \notin {"idle", "done"}
    /\ Finish(c, ServerError)
    /\ UNCHANGED <<db, session>>

CheckOutStep(c) ==
    \/ CheckOutBegin(c)
    \/ UpdateInventoryRead(c)
    \/ UpdateInventoryExecute(c)
    \/ UpdateOrdersRead(c)
    \/ UpdateOrdersInsertOrder(c)
    \/ UpdateOrdersInsertItems(c)
    \/ ClearCartExecute(c)

AddStep(c) ==
    \/ \E i \in Items : AddBegin(c, i, [kind |-> "int", value |-> 1])
    \/ AddToCartRead(c)
    \/ AddToCartUpdate(c)
    \/ AddToCartInsert(c)

SignInStep(c) ==
    \E u \in Users : SignInBegin(c, UserName(u), "secret")

DeleteStep(c) ==
    \/ \E i \in Items : DeleteBegin(c, i)
    \/ RemoveItemExecute(c)

----------------------------------------------------------------------------
(* SpecConc: two clients each send one request at the same time: an add, a  *)
(* delete, a checkout or a sign-in.  One is signed in; the other is signed  *)
(* in as the same user or as another, or is a visitor with a session cart.  *)

\* Anonymous sessions that hold one unit of some items.
Visitors ==
    {[id |-> NoId, has_cart |-> TRUE, cart |-> [k \in {StrKey(i) : i \in I} |-> 1]] :
        I \in SUBSET Items \ {{}}}

InitConc ==
    /\ inventory = [i \in Items |-> InitAvail]
    /\ users = SeededUsers
    /\ shopping_carts = SeededCarts
    /\ cart_items \in {ci \in CartTables(MaxCartRows) : NoDuplicateRows(ci)}
    /\ orders = <<>>
    /\ order_items = NoRows
    /\ session \in {[c \in Clients |-> IF c = 1 THEN SignedIn(1) ELSE s] :
                        s \in {SignedIn(u) : u \in Users} \cup Visitors}
    /\ req = [c \in Clients |-> NoRequest]

NextConc ==
    \E c \in Clients :
        CheckOutStep(c) \/ AddStep(c) \/ DeleteStep(c) \/ SignInStep(c) \/ ConnectFail(c)

SpecConc == InitConc /\ [][NextConc]_vars

----------------------------------------------------------------------------
(* SpecAdd: two signed-in clients, of one user or of two, each add one unit *)
(* of an item at the same time; no cart has two rows of an item to start.   *)

InitAdd ==
    /\ inventory = [i \in Items |-> InitAvail]
    /\ users = SeededUsers
    /\ shopping_carts = SeededCarts
    /\ cart_items \in {ci \in CartTables(MaxCartRows) : NoDuplicateRows(ci)}
    /\ orders = <<>>
    /\ order_items = NoRows
    /\ session \in {[c \in Clients |-> IF c = 1 THEN SignedIn(1) ELSE SignedIn(u)] : u \in Users}
    /\ req = [c \in Clients |-> NoRequest]

NextAdd == \E c \in Clients : AddStep(c)

SpecAdd == InitAdd /\ [][NextAdd]_vars

----------------------------------------------------------------------------
(* SpecRace: users 1 and 2 each hold one unit of the contested item, of     *)
(* which one unit is left, and check out at the same time.  Either may hold *)
(* a unit of the other item too, of which any number is left.               *)

Contested == 1

Other == 2

RaceLine(u) == [cart_id |-> u, item_id |-> Contested, quantity |-> 1]

InitRace ==
    /\ inventory \in {[i \in Items |-> IF i = Contested THEN 1 ELSE n] : n \in 0..InitAvail}
    /\ users = SeededUsers
    /\ shopping_carts = SeededCarts
    /\ cart_items \in {[r \in {RaceLine(u) : u \in Users}
                             \cup {[cart_id |-> u, item_id |-> Other, quantity |-> 1] : u \in U}
                         |-> 1] : U \in SUBSET Users}
    /\ orders = <<>>
    /\ order_items = NoRows
    /\ session = [c \in Clients |-> SignedIn(c)]
    /\ req = [c \in Clients |-> NoRequest]

NextRace == \E c \in Clients : CheckOutStep(c) \/ ConnectFail(c)

SpecRace == InitRace /\ [][NextRace]_vars

----------------------------------------------------------------------------
(* SpecSignUp: two visitors sign up at the same time, under the name of a   *)
(* seeded user, under a new name, or leaving a field blank.                 *)

\* The names not taken yet that the visitors ask for.
NewNames == {UserName(3), UserName(4)}

SignUpStep(c) ==
    \/ \E n \in {UserName(1), BlankName, WhitespaceName} \cup NewNames,
          p \in {"secret", BlankPassword, WhitespacePassword} :
          SignUpPost(c, n, p)
    \/ UpdateUserInfoExecute(c)
    \/ SignUpGetUserId(c)
    \/ CreateCartExecute(c)

InitSignUp ==
    /\ inventory = [i \in Items |-> InitAvail]
    /\ users = SeededUsers
    /\ shopping_carts = SeededCarts
    /\ cart_items = NoRows
    /\ orders = <<>>
    /\ order_items = NoRows
    /\ session = [c \in Clients |-> NewSession]
    /\ req = [c \in Clients |-> NoRequest]

NextSignUp == \E c \in Clients : SignUpStep(c) \/ ConnectFail(c)

SpecSignUp == InitSignUp /\ [][NextSignUp]_vars

----------------------------------------------------------------------------
(* SpecStore: a caller uses a DatabasePersistence object directly, one      *)
(* method after the other, on a store whose carts are new and empty.        *)

\* What a method call leaves: its name, its arguments, what it returned.
Called(op, user_id, item_id, quantity, ret) ==
    [ServedItem(op, "", item_id, quantity) EXCEPT !.user_id = user_id, !.ret = ret]

\* g.storage.is_quantity_valid(quantity, item_id)
CallIsQuantityValid(c, quantity, item_id) ==
    /\ req' = [req EXCEPT ![c] = Called("is_quantity_valid", NoId, item_id, quantity,
                                        IsQuantityValid(inventory, quantity, item_id))]
    /\ UNCHANGED <<db, session>>

\* g.storage.add_to_cart(user_id, {item_id: quantity})
CallAddToCart(c, user_id, item_id, quantity) ==
    /\ cart_items' = AddToCart(users, cart_items, user_id, IntKey(item_id) :> quantity)
    /\ CartsWithinBounds(cart_items', NewSession)
    /\ req' = [req EXCEPT ![c] = Called("add_to_cart", user_id, item_id, quantity, NoRows)]
    /\ UNCHANGED <<inventory, users, shopping_carts, orders, order_items, session>>

\* g.storage.get_user_cart(user_id)
CallGetUserCart(c, user_id) ==
    /\ req' = [req EXCEPT ![c] = Called("get_user_cart", user_id, 0, 0,
                                        GetUserCart(users, cart_items, user_id))]
    /\ UNCHANGED <<db, session>>

\* g.storage.clear_cart(user_id)
CallClearCart(c, user_id) ==
    /\ cart_items' = ClearCart(cart_items, user_id)
    /\ req' = [req EXCEPT ![c] = Called("clear_cart", user_id, 0, 0, NoRows)]
    /\ UNCHANGED <<inventory, users, shopping_carts, orders, order_items, session>>

Callers == {1}

InitStore ==
    /\ inventory \in [Items -> 0..InitAvail]
    /\ users = SeededUsers
    /\ shopping_carts = SeededCarts
    /\ cart_items = NoRows
    /\ orders = <<>>
    /\ order_items = NoRows
    /\ session = [c \in Clients |-> NewSession]
    /\ req = [c \in Clients |-> NoRequest]

NextStore ==
    \E c \in Callers :
        \/ \E q \in (-1)..(InitAvail + 1), i \in Items \cup {NoSuchItem} :
              CallIsQuantityValid(c, q, i)
        \/ \E u \in Users, i \in Items, q \in 1..MaxLineQty : CallAddToCart(c, u, i, q)
        \/ \E u \in Users : CallGetUserCart(c, u)
        \/ \E u \in Users : CallClearCart(c, u)

SpecStore == InitStore /\ [][NextStore]_vars

----------------------------------------------------------------------------
(* What the claims speak of *)

\* The rows of user u's cart that hold item i, how many they are, and the
\* units they hold together.
LinesOf(ci, u, i) ==
    LET Match(r) == r.cart_id = u /\ r.item_id = i
    IN RowsWhere(ci, {x \in DOMAIN ci : Match(x)})

UnitsIn(b) ==
    LET w == [r \in DOMAIN b |-> r.quantity * b[r]]
    IN SumOver(w, DOMAIN b)

LineCount(ci, u, i) == RowCount(LinesOf(ci, u, i))
LineQty(ci, u, i) == UnitsIn(LinesOf(ci, u, i))

\* The lines (item, quantity) of a bag of cart rows or of order rows.
LinesBag(b) ==
    LET L(r) == [item_id |-> r.item_id, quantity |-> r.quantity]
    IN RowsMap(b, [x \in DOMAIN b |-> L(x)])

OrderLines(ois, order_id) ==
    LET Of(r) == r.order_id = order_id
    IN LinesBag(RowsWhere(ois, {x \in DOMAIN ois : Of(x)}))

----------------------------------------------------------------------------
(* Claims on the cart and the session (SpecCart) *)

\* C5: for a signed-in user, an accepted add-to-cart of q units of an item
\* that the persisted cart holds in one line of quantity p (or not at all,
\* p = 0) leaves exactly one line for the item, of quantity p + q; so two
\* adds of q1 and q2 in a row leave one line of q1 + q2 more than before.
C5_AddMergesIntoOneLine ==
    [][\A c \in Browsers, i \in Items, f \in FormQuantities :
        LET u == session[c].id
        IN (/\ AddProductToCart(c, i, f)
            /\ IsUserSignedIn(session[c])
            /\ req'[c].flash = "Added to cart!"
            /\ LineCount(cart_items, u, i) <= 1)
           => (/\ LineCount(cart_items', u, i) = 1
               /\ LineQty(cart_items', u, i) = LineQty(cart_items, u, i) + f.value)]_vars

\* C5 witness: a signed-in add was accepted and the one line of the item
\* holds more than the request added: the request merged into a line.
C5_Witness ==
    \E c \in Browsers :
        /\ req[c].op = "add" /\ req[c].flash = "Added to cart!"
        /\ IsUserSignedIn(session[c])
        /\ LineCount(cart_items, session[c].id, req[c].item) = 1
        /\ LineQty(cart_items, session[c].id, req[c].item) > req[c].quantity

\* C6 as claimed: a successful sign-in whose session cart holds s units of
\* item i, into a persisted cart holding i in one line of quantity p (or not
\* at all, p = 0), leaves exactly one line for i, of quantity p + s.
C6_MergeOnSignInUpserts ==
    [][\A c \in Browsers, u \in Users, i \in Items :
        LET s == InitializeSession(session[c])
        IN (/\ SignIn(c, UserName(u), "secret")
            /\ req'[c].flash = "Welcome back!"
            /\ s.has_cart /\ StrKey(i) \in DOMAIN s.cart
            /\ LineCount(cart_items, u, i) <= 1)
           => (/\ LineCount(cart_items', u, i) = 1
               /\ LineQty(cart_items', u, i) = LineQty(cart_items, u, i) + s.cart[StrKey(i)])]_vars

----------------------------------------------------------------------------
(* Claims on the checkout served alone (SpecShop) *)

\* C8: a checkout by a signed-in user whose persisted cart is empty changes
\* no table and no session cart, and flashes 'No items to check out!'.
C8_EmptyCartCheckoutIsNoOp ==
    [][\A c \in Browsers :
        (/\ CheckOutCart(c)
         /\ IsUserSignedIn(session[c])
         /\ GetUserCart(users, cart_items, session[c].id) = NoRows)
        => (/\ UNCHANGED <<inventory, users, shopping_carts, cart_items, orders, order_items>>
            /\ session'[c] = session[c]
            /\ req'[c].flash = "No items to check out!")]_vars

\* C8 witness: a checkout of an empty cart has been served.
C8_Witness ==
    \E c \in Browsers :
        /\ req[c].op = "check_out" /\ req[c].flash = "No items to check out!"
        /\ IsUserSignedIn(session[c])
        /\ GetUserCart(users, cart_items, session[c].id) = NoRows

\* C9 as claimed: a checkout served alone, of a cart that is not empty and
\* whose every line asks for no more than is available, takes from every
\* item the units the cart holds of it, adds one order of that user whose
\* lines are the cart's lines, and empties the cart.
C9_CheckoutEffect ==
    [][\A c \in Browsers :
        LET u == session[c].id
            cart == GetUserCart(users, cart_items, u)
        IN (/\ CheckOutCart(c)
            /\ IsUserSignedIn(session[c])
            /\ cart # NoRows
            /\ \A r \in DOMAIN cart : r.quantity <= inventory[r.item_id])
           => (/\ \A i \in Items : inventory'[i] = inventory[i] - LineQty(cart_items, u, i)
               /\ Len(orders') = Len(orders) + 1
               /\ orders'[Len(orders')].user_id = u
               /\ OrderLines(order_items', Len(orders')) = LinesBag(cart)
               /\ GetUserCart(users, cart_items', u) = NoRows)]_vars

\* C10 as claimed: a checkout of a cart one of whose lines asks for more than
\* is available changes no table.
C10_InsufficientStockRejected ==
    [][\A c \in Browsers :
        LET cart == GetUserCart(users, cart_items, session[c].id)
        IN (/\ CheckOutCart(c)
            /\ IsUserSignedIn(session[c])
            /\ \E r \in DOMAIN cart : r.quantity > inventory[r.item_id])
           => UNCHANGED <<inventory, users, shopping_carts, cart_items, orders, order_items>>]_vars

\* The writes of a checkout that went through.
CheckOutWrites == {"inventory", "order", "order_items", "cart"}

\* C1: a checkout that has ended, whatever failed on its way, has committed
\* all of its writes (inventory decremented, order inserted, order lines
\* inserted, cart cleared) or none of them.
C1_CheckOutIsAllOrNothing ==
    \A c \in Clients :
        (req[c].op = "check_out" /\ req[c].pc = "done")
            => req[c].did \in {{}, CheckOutWrites}

\* C2: no item's available is ever negative, under any interleaving of adds,
\* deletes, sign-ins and checkouts; and a decrement the store rejects leaves
\* every item's available as it was.
C2_AvailableNeverNegative ==
    /\ [](\A i \in Items : inventory[i] >= 0)
    /\ [][\A c \in Clients :
            (UpdateInventoryExecute(c) /\ "inventory" \notin req'[c].did)
                => inventory' = inventory]_vars

\* C2 happens: a checkout has sold an item out, and the checkout of a cart
\* that holds more of it than is left has ended in an error, having written
\* nothing.
C2_Witness ==
    \E c, d \in Clients :
        /\ c # d
        /\ "inventory" \in req[d].did
        /\ req[c].op = "check_out" /\ req[c].pc = "done"
        /\ req[c].flash = ServerError /\ req[c].did = {}
        /\ \E r \in DOMAIN GetUserCart(users, cart_items, session[c].id) :
              /\ inventory[r.item_id] < r.quantity
              /\ inventory[r.item_id] < InitAvail
        /\ \E i \in Items : inventory[i] = InitAvail

\* C3: with one unit left of an item that two users each hold one unit of,
\* their two checkouts at the same time create one order at most, and a
\* user's cart changes only once that user's order is in.
C3_OneUnitIsSoldOnce ==
    /\ [](Len(orders) <= 1)
    /\ [][\A c \in Clients :
            GetUserCart(users', cart_items', session[c].id)
                    # GetUserCart(users, cart_items, session[c].id)
                => \E k \in 1..Len(orders) : orders[k].user_id = session[c].id]_vars

\* C3 happens: both checkouts have ended, one in an order that holds the
\* last unit, the other in the error of the rejected decrement with its cart
\* line in place.
C3_Witness ==
    \E c, d \in Clients :
        /\ c # d
        /\ req[c].pc = "done" /\ req[c].did = CheckOutWrites
        /\ req[d].pc = "done" /\ req[d].flash = ServerError /\ req[d].did = {}
        /\ inventory[Contested] = 0
        /\ Len(orders) = 1 /\ orders[1].user_id = session[c].id
        /\ [order_id |-> 1, item_id |-> Contested, quantity |-> 1] \in DOMAIN order_items
        /\ RaceLine(session[d].id) \in DOMAIN cart_items
        /\ RaceLine(session[c].id) \notin DOMAIN cart_items

\* C4: no user's cart holds two rows of one item, adds of the same user and
\* item at the same time included.
C4_OneRowPerCartAndItem == NoDuplicateRows(cart_items)

\* C11: an add-to-cart request for q units of an item in inventory, q <= 0
\* or q > available, is answered "Quantity is invalid for this item." and
\* changes nothing: the session (its cart and its user) and every table are
\* as before.
C11_InvalidQuantityRejected ==
    [][\A c \in Browsers, i \in Items, f \in FormQuantities :
          (/\ AddProductToCart(c, i, f)
           /\ f.kind = "int"
           /\ (f.value <= 0 \/ f.value > inventory[i]))
          => (/\ req'[c].flash = "Quantity is invalid for this item."
              /\ session'[c] = InitializeSession(session[c])
              /\ session'[c].cart = session[c].cart
              /\ UNCHANGED db)]_vars

\* C11 happens: a request for more than is available has been turned down
\* while the cart asked to grow held lines.
C11_Witness ==
    \E c \in Browsers :
        /\ req[c].op = "add"
        /\ req[c].flash = "Quantity is invalid for this item."
        /\ req[c].item \in Items
        /\ req[c].quantity > inventory[req[c].item]
        /\ \/ session[c].cart # NoDict
           \/ IsUserSignedIn(session[c])
                /\ GetUserCart(users, cart_items, session[c].id) # NoRows

\* C12: a view-item, add-to-cart or delete-from-cart request that names an
\* id no inventory row has is answered "Item does not exist." and changes
\* nothing: the session (its cart and its user) and every table are as
\* before.
C12_UnknownItemRejected ==
    [][\A c \in Browsers :
          (\/ ViewProduct(c, NoSuchItem)
           \/ \E f \in FormQuantities : AddProductToCart(c, NoSuchItem, f)
           \/ DeleteItemFromCart(c, NoSuchItem))
          => (/\ req'[c].flash = "Item does not exist."
              /\ req'[c].item = NoSuchItem
              /\ session'[c] = InitializeSession(session[c])
              /\ session'[c].cart = session[c].cart
              /\ UNCHANGED db)]_vars

\* C12 happens: a delete and an add that name such an id have been turned
\* down, the one with lines in the session cart, the other with lines in
\* the persisted cart.
C12_Witness ==
    \E c \in Browsers :
        /\ req[c].op \in {"add", "delete"}
        /\ req[c].item = NoSuchItem
        /\ req[c].flash = "Item does not exist."
        /\ \/ req[c].op = "delete" /\ session[c].cart # NoDict
           \/ /\ req[c].op = "add"
              /\ IsUserSignedIn(session[c])
              /\ GetUserCart(users, cart_items, session[c].id) # NoRows

\* C13: no two user rows share a username, under any interleaving of two
\* sign-ups; and a sign-up under a username that exists is answered
\* "Username already exists." and inserts nothing, no user row and no cart.
C13_UsernamesAreUnique ==
    /\ [](\A u, v \in users : u.username = v.username => u = v)
    /\ [][\A c \in Clients, n \in {UserName(1)} \cup NewNames :
            (SignUpBegin(c, n, "secret") /\ IsExistingUser(users, n))
                => (/\ req'[c].pc = "done"
                    /\ req'[c].flash = "Username already exists."
                    /\ UNCHANGED db)]_vars

\* C13 happens: two sign-ups under one new name have both passed the check
\* for an existing user; one has registered the name, the other has ended
\* in the error of the rejected insert.
C13_Witness ==
    \E c, d \in Clients :
        /\ c # d
        /\ req[c].op = "sign_up" /\ req[d].op = "sign_up"
        /\ req[c].username = req[d].username
        /\ req[c].username \in NewNames
        /\ "user" \in req[c].did
        /\ req[d].pc = "done" /\ req[d].flash = ServerError /\ req[d].did = {}
        /\ Cardinality({u \in users : u.username = req[c].username}) = 1

\* C17: once a sign-up has ended, however it ended, the user row it has
\* inserted has its shopping_carts row.
C17_EveryUserHasACart ==
    \A c \in Clients :
        (req[c].op = "sign_up" /\ req[c].pc = "done" /\ "user" \in req[c].did)
            => \A u \in users : u.username = req[c].username => u.id \in shopping_carts

\* C14: a sign-in under a username no user row has, and a sign-in under an
\* existing username with a password that is not its own, are both answered
\* "Invalid credentials" and change nothing: the session has the user (or
\* none) and the cart it had, and every table is as before.
C14_BadCredentialsRejected ==
    [][\A c \in Browsers, u \in Users \cup {0}, p \in {"secret", "password"} :
          LET unknown == \A x \in users : x.username # UserName(u)
              wrong == \E x \in users : x.username = UserName(u) /\ x.hashed_pwd # HashPw(p)
          IN (SignIn(c, UserName(u), p) /\ (unknown \/ wrong))
                => (/\ req'[c].flash = "Invalid credentials"
                    /\ session'[c] = InitializeSession(session[c])
                    /\ session'[c].id = session[c].id
                    /\ session'[c].cart = session[c].cart
                    /\ UNCHANGED db)]_vars

\* C14 happens: a visitor with lines in the session cart has been refused,
\* is still anonymous and still has them.
C14_Witness ==
    \E c \in Browsers :
        /\ req[c].op = "sign_in"
        /\ req[c].flash = "Invalid credentials"
        /\ ~IsUserSignedIn(session[c])
        /\ session[c].cart # NoDict

\* C15: is_item_in_cart is true exactly when the user's persisted cart
\* holds a row of the item, so that a signed-in delete request for an item
\* of the inventory that the cart does not hold is answered "Item is not in
\* cart.".
C15_IsItemInCartCounts ==
    [][\A c \in Browsers, i \in Items :
          (DeleteItemFromCart(c, i) /\ IsUserSignedIn(session[c]))
          => (/\ IsItemInCart(cart_items, session[c].id, i)
                    <=> LineCount(cart_items, session[c].id, i) > 0
              /\ LineCount(cart_items, session[c].id, i) = 0
                    => req'[c].flash = "Item is not in cart.")]_vars

\* C16: is_quantity_valid(quantity, item_id) returns, and never raises:
\* true when the item is in inventory and 0 < quantity <= available, false
\* otherwise, for an item that is not in inventory too.
C16_IsQuantityValidFailsClosed ==
    \A c \in Callers :
        req[c].op = "is_quantity_valid"
            => req[c].ret =
                  [raised |-> FALSE,
                   value |-> /\ req[c].item \in DOMAIN inventory
                             /\ 0 < req[c].quantity
                             /\ req[c].quantity <= inventory[req[c].item]]

\* The rows of cart_items that are of cart u.
RowsOfCart(ci, u) == [r \in {x \in DOMAIN ci : x.cart_id = u} |-> ci[r]]

\* C20: add_to_cart(user, {item: 2}) on an empty cart leaves the cart with
\* the one line (item, 2); get_user_cart(user) returns the lines the cart
\* holds; clear_cart(user) leaves the cart without lines.
C20_CartRoundTrip ==
    [][\A c \in Callers, u \in Users, i \in Items :
          /\ (CallAddToCart(c, u, i, 2) /\ RowsOfCart(cart_items, u) = NoRows)
                => RowsOfCart(cart_items', u)
                      = ([cart_id |-> u, item_id |-> i, quantity |-> 2] :> 1)
          /\ CallGetUserCart(c, u)
                => (req'[c].ret = RowsOfCart(cart_items, u) /\ UNCHANGED db)
          /\ CallClearCart(c, u)
                => RowsOfCart(cart_items', u) = NoRows]_vars

\* C20 happens: get_user_cart has returned the one line (item, 2) of a cart
\* that add_to_cart had found empty.
C20_Witness ==
    \E c \in Callers, i \in Items :
        /\ req[c].op = "get_user_cart"
        /\ req[c].ret = ([cart_id |-> req[c].user_id, item_id |-> i, quantity |-> 2] :> 1)

\* C18: every order row has an order line at least, in every state: those
\* between the statements of a checkout, and those a failed insert of the
\* order lines leaves.
C18_NoOrderWithoutLines ==
    \A k \in 1..Len(orders) :
        \E r \in DOMAIN order_items : r.order_id = orders[k].id

\* The order lines a history page shows.
ShownLines(purchases) ==
    UNION {{[order_id |-> o, item_id |-> i, quantity |-> purchases[o][i]] :
                i \in DOMAIN purchases[o]} : o \in DOMAIN purchases}

\* The order lines of the orders of user u.
OwnLines(os, ois, u) ==
    {r \in DOMAIN ois : \E k \in 1..Len(os) : os[k].id = r.order_id /\ os[k].user_id = u}

\* C19: the order history of a signed-in user shows the order lines of the
\* user's own orders, all of them and no other.
C19_HistoryIsOwnOrders ==
    [][\A c \in Browsers :
          (UserHistory(c) /\ IsUserSignedIn(session[c]))
              => ShownLines(req'[c].ret) = OwnLines(orders, order_items, session[c].id)]_vars

\* C21: an accepted add-to-cart of q units of an item by a visitor who is
\* not signed in, whose session cart holds p units of it (0 when it holds
\* none), leaves the session cart with p + q units of it and its other
\* lines as they were, and changes no table.
C21_AnonymousAddAccumulates ==
    [][\A c \in Browsers, i \in Items, f \in FormQuantities :
          LET key == StrKey(i)
              p == IF key \in DOMAIN session[c].cart THEN session[c].cart[key] ELSE 0
          IN (/\ AddProductToCart(c, i, f)
              /\ ~IsUserSignedIn(session[c])
              /\ req'[c].flash = "Added to cart!")
             => (/\ DOMAIN session'[c].cart = DOMAIN session[c].cart \cup {key}
                 /\ session'[c].cart[key] = p + f.value
                 /\ \A k \in DOMAIN session[c].cart \ {key} :
                        session'[c].cart[k] = session[c].cart[k]
                 /\ ~IsUserSignedIn(session'[c])
                 /\ UNCHANGED db)]_vars

\* C21 happens: a visitor's add has been accepted for an item the session
\* cart held already, next to a line of another item.
C21_Witness ==
    \E c \in Browsers :
        /\ req[c].op = "add" /\ req[c].flash = "Added to cart!"
        /\ ~IsUserSignedIn(session[c])
        /\ StrKey(req[c].item) \in DOMAIN session[c].cart
        /\ session[c].cart[StrKey(req[c].item)] > req[c].quantity
        /\ \E k \in DOMAIN session[c].cart : k # StrKey(req[c].item)

-----------------------------------------------------------------------------
(* DatabasePersistence._setup_schema: one connection, one transaction.  The
   catalog of the public schema says of each required table whether it is
   "missing", "found" (it was there before the call, whatever its columns)
   or "created" (by a CREATE TABLE of this call, not yet committed or
   committed).  The call is the record req[c]. *)

names == {"users", "inventory", "orders", "order_items", "shopping_carts", "cart_items"}

\* The tables the REFERENCES clauses of a CREATE TABLE statement name.
References(table_name) ==
    CASE table_name = "users"          -> {}
      [] table_name = "inventory"      -> {}
      [] table_name = "orders"         -> {"users"}
      [] table_name = "order_items"    -> {"orders", "inventory"}
      [] table_name = "shopping_carts" -> {"users"}
      [] table_name = "cart_items"     -> {"inventory"}

Present(catalog) == {n \in names : catalog[n] # "missing"}

\* The rollback at the exit of `with connection` when a statement raised.
Rollback(catalog) ==
    [n \in names |-> IF catalog[n] = "created" THEN "missing" ELSE catalog[n]]

SchemaCall(pc, catalog, existing_tables, visited, raised) ==
    [op |-> "_setup_schema", pc |-> pc, catalog |-> catalog,
     existing_tables |-> existing_tables, visited |-> visited, raised |-> raised]

\* SELECT table_name, count(*) FROM information_schema.tables ...;
\* existing_tables = set(...)
SetupSchemaRead(c) ==
    /\ req[c].pc = "start"
    /\ req' = [req EXCEPT ![c] = [@ EXCEPT !.pc = "loop",
                                           !.existing_tables = Present(req[c].catalog)]]
    /\ UNCHANGED <<db, session>>

\* One turn of `for table_name in (names - existing_tables)`: the set is
\* iterated in whatever order its hashing gives, so any table not visited
\* yet can be the next.  CREATE TABLE raises when a table it references is
\* not there; the exception leaves the loop and the transaction is rolled
\* back.
SetupSchemaCreate(c) ==
    /\ req[c].pc = "loop"
    /\ \E table_name \in (names \ req[c].existing_tables) \ req[c].visited :
          IF References(table_name) \subseteq Present(req[c].catalog)
          THEN req' = [req EXCEPT ![c] =
                          [@ EXCEPT !.catalog = [req[c].catalog EXCEPT ![table_name] = "created"],
                                    !.visited = @ \cup {table_name}]]
          ELSE req' = [req EXCEPT ![c] =
                          [@ EXCEPT !.pc = "done", !.raised = TRUE,
                                    !.catalog = Rollback(req[c].catalog),
                                    !.visited = @ \cup {table_name}]]
    /\ UNCHANGED <<db, session>>

\* The loop is over: the `with connection` block commits.
SetupSchemaCommit(c) ==
    /\ req[c].pc = "loop"
    /\ (names \ req[c].existing_tables) \ req[c].visited = {}
    /\ req' = [req EXCEPT ![c] = [@ EXCEPT !.pc = "done"]]
    /\ UNCHANGED <<db, session>>

\* The call reads and writes no row: the rows are left out, and any subset
\* of the six tables can be the one the call finds.
InitSchema ==
    /\ inventory = [i \in Items |-> 0]
    /\ users = {}
    /\ shopping_carts = {}
    /\ cart_items = NoRows
    /\ orders = <<>>
    /\ order_items = NoRows
    /\ session = [c \in Clients |-> NewSession]
    /\ \E catalog \in [names -> {"missing", "found"}] :
          req = [c \in Clients |-> SchemaCall(IF c \in Callers THEN "start" ELSE "done",
                                              catalog, {}, {}, FALSE)]

NextSchema ==
    \E c \in Callers :
        \/ SetupSchemaRead(c)
        \/ SetupSchemaCreate(c)
        \/ SetupSchemaCommit(c)

SpecSchema == InitSchema /\ [][NextSchema]_vars

\* C22: whatever tables are missing at startup and in whatever order the
\* missing ones are visited, schema setup ends with all six tables present,
\* and with every table it found still as it found it.
C22_SetupSchemaCompletes ==
    \A c \in Callers :
        req[c].pc = "done"
            => /\ Present(req[c].catalog) = names
               /\ ~req[c].raised
               /\ \A n \in req[c].existing_tables : req[c].catalog[n] = "found"

-----------------------------------------------------------------------------
(* Claims on the steps of a checkout (SpecConc) *)

\* C23: a checkout works on one set of cart lines from its first step to its
\* last, whatever the same user adds to or removes from the cart meanwhile;
\* so every line its last step removes from the cart is a line it wrote to
\* its order: no line is deleted without having been ordered.
C23_CheckOutUsesOneCart ==
    [][\A c \in Clients :
          ClearCartExecute(c)
             => LET removed == LinesBag(RowsOfCart(cart_items, session[c].id))
                    ordered == OrderLines(order_items, req[c].order_id)
                IN \A l \in DOMAIN removed :
                      l \in DOMAIN ordered /\ removed[l] <= ordered[l]]_vars

\* C27: no step of any request changes or deletes an order or an order
\* line that exists: the orders stay in place with their user, and every
\* order line stays as many times as it was there; a checkout only adds.
C27_OrdersAreImmutable ==
    [][/\ Len(orders') >= Len(orders)
       /\ \A k \in 1..Len(orders) : orders'[k] = orders[k]
       /\ \A r \in DOMAIN order_items :
             r \in DOMAIN order_items' /\ order_items'[r] >= order_items[r]]_vars

\* C27 happens: a second order has been written, lines and all, next to a
\* first order and its lines.
C27_Witness ==
    /\ Len(orders) = 2
    /\ OrderLines(order_items, 1) # NoRows
    /\ OrderLines(order_items, 2) # NoRows

-----------------------------------------------------------------------------
(* Claims on signing up, continued (SpecSignUp) *)

\* C28: a sign-up whose username or password is missing or made of spaces
\* only is refused at once with a warning: it inserts no user and no
\* shopping cart, changes no other table, and leaves the session without a
\* user id.
C28_BlankSignUpRejected ==
    [][\A c \in Clients,
          n \in {UserName(1), BlankName, WhitespaceName} \cup NewNames,
          p \in {"secret", BlankPassword, WhitespacePassword} :
          (/\ SignUpPost(c, n, p)
           /\ (n \in {BlankName, WhitespaceName} \/ p \in {BlankPassword, WhitespacePassword}))
          => (/\ req'[c].pc = "done"
              /\ req'[c].flash = "Please provide a username and password."
              /\ session'[c].id = NoId
              /\ UNCHANGED db)]_vars

\* C28 happens: a sign-up under a name with a blank password has been
\* refused, and the name is in no row of users.
C28_Witness ==
    \E c \in Clients :
        /\ req[c].op = "sign_up" /\ req[c].pc = "done"
        /\ req[c].flash = "Please provide a username and password."
        /\ req[c].username \in NewNames
        /\ ~IsExistingUser(users, req[c].username)
        /\ session[c].id = NoId

\* C29: when two check-out requests of one signed-in user run at the same
\* time on the same cart, at most one order with lines comes of them.
C29_CartPurchasedOnce ==
    (/\ session[1].id = session[2].id
     /\ req[1].op = "check_out" /\ req[2].op = "check_out")
        => Cardinality({o \in 1..Len(orders) : OrderLines(order_items, o) # NoRows}) <= 1

-----------------------------------------------------------------------------
(* Claims on who may check out and on what a checkout leaves (SpecShop) *)

\* C24: a check-out or a history request of a session without a user id is
\* sent to the sign-in page with a warning; it changes no table (inventory,
\* orders, order lines, carts) and leaves the session cart and the session
\* anonymous as they were.
C24_CheckOutAndHistoryNeedSignIn ==
    [][\A c \in Browsers :
          ((CheckOutCart(c) \/ UserHistory(c)) /\ session[c].id = NoId)
             => (/\ req'[c].flash = "You must be signed in before continuing."
                 /\ req'[c].ret = NoRows
                 /\ session'[c].id = NoId
                 /\ session'[c].cart = session[c].cart
                 /\ UNCHANGED db)]_vars

\* C24 happens: a visitor with lines in the session cart has been refused a
\* check-out while the persisted carts hold lines.
C24_Witness ==
    \E c \in Browsers :
        /\ req[c].op = "check_out"
        /\ req[c].flash = "You must be signed in before continuing."
        /\ session[c].id = NoId
        /\ session[c].cart # NoDict
        /\ cart_items # NoRows

-----------------------------------------------------------------------------
(* Claims on the carts and the session, continued (SpecCart) *)

\* C25: a delete of an item from the cart of a signed-in user leaves no row
\* of that user and item and every other row of cart_items as it was, so it
\* changes nothing when the cart holds no such row; a delete by a visitor
\* leaves the session cart without the item's key and with its other lines
\* as they were; neither changes the inventory.
C25_DeleteRemovesOneLine ==
    [][\A c \in Browsers, i \in Items :
          DeleteItemFromCart(c, i)
             => /\ inventory' = inventory
                /\ IF session[c].id # NoId
                   THEN /\ DOMAIN cart_items'
                             = {r \in DOMAIN cart_items :
                                   ~(r.cart_id = session[c].id /\ r.item_id = i)}
                        /\ \A r \in DOMAIN cart_items' : cart_items'[r] = cart_items[r]
                        /\ session'[c] = session[c]
                   ELSE /\ DOMAIN session'[c].cart = DOMAIN session[c].cart \ {StrKey(i)}
                        /\ \A k \in DOMAIN session'[c].cart :
                              session'[c].cart[k] = session[c].cart[k]
                        /\ cart_items' = cart_items]_vars

\* C25 happens: a signed-in user's delete has been served, the cart holds no
\* row of the item and still holds a line of the other item, and the other
\* user's cart holds a line of the deleted item.
C25_Witness ==
    \E c \in Browsers, u \in Users :
        /\ req[c].op = "delete" /\ req[c].flash = "Item removed from cart"
        /\ session[c].id # NoId /\ u # session[c].id
        /\ req[c].item \in Items
        /\ LineCount(cart_items, session[c].id, req[c].item) = 0
        /\ \E i \in Items \ {req[c].item} : LineCount(cart_items, session[c].id, i) > 0
        /\ LineCount(cart_items, u, req[c].item) > 0

\* C26: a sign-out takes the user id out of the session and changes nothing
\* else, neither in the session nor in any table; and a sign-in that comes
\* right after a sign-out, while the session cart holds no line, signs the
\* user in and changes no table, so the user finds the persisted cart as the
\* sign-out left it.
C26_SignOutRemovesOnlyTheId ==
    [][\A c \in Browsers :
          /\ SignOut(c)
                => (/\ session'[c] = [InitializeSession(session[c]) EXCEPT !.id = NoId]
                    /\ UNCHANGED db)
          /\ \A u \in Users :
                (/\ SignIn(c, UserName(u), "secret")
                 /\ req[c].op = "sign_out"
                 /\ session[c].cart = NoDict)
                => (/\ session'[c].id = u
                    /\ GetUserCart(users', cart_items', u) = GetUserCart(users, cart_items, u)
                    /\ UNCHANGED db)]_vars

\* C26 happens: a user whose persisted cart holds lines has signed out; the
\* session has no 'cart' key, which only a session that was signed in lacks.
C26_Witness ==
    \E c \in Browsers :
        /\ req[c].op = "sign_out"
        /\ session[c].id = NoId
        /\ ~session[c].has_cart
        /\ cart_items # NoRows

-----------------------------------------------------------------------------
(* Claims on a cart being filled (SpecFill) *)

-----------------------------------------------------------------------------
(* Claims on whose cart a request writes to (SpecConc) *)

\* C31: every step of an add, a delete or a check-out made in a session
\* signed in as a user leaves the rows of every other user's cart, the
\* session's own cart and every other session as they were; every step of
\* an add, a delete or a check-out of a session that is not signed in
\* leaves cart_items and every other session as they were.  (The steps of
\* add_to_cart are also those of the merge of a sign-in, which is no cart
\* request: the request's op tells them apart.)
C31_CartsAreIsolated ==
    [][\A c \in Clients :
          (/\ CheckOutStep(c) \/ AddStep(c) \/ DeleteStep(c)
           /\ req'[c].op \in {"add", "delete", "check_out"})
             => /\ \A d \in Clients \ {c} : session'[d] = session[d]
                /\ session'[c].id = session[c].id
                /\ IF session[c].id # NoId
                   THEN /\ \A v \in Users \ {session[c].id} :
                              RowsOfCart(cart_items', v) = RowsOfCart(cart_items, v)
                        /\ session'[c].cart = session[c].cart
                   ELSE cart_items' = cart_items]_vars

\* C31 happens: a user's check-out has cleared the user's cart while the
\* other client's add has written to another user's cart, which holds its
\* lines still.
C31_Witness ==
    \E c \in Clients, v \in Users :
          /\ req[c].op = "check_out" /\ req[c].flash = "Thank you for your purchase!"
          /\ session[c].id # NoId /\ v # session[c].id
          /\ RowsOfCart(cart_items, session[c].id) = NoRows
          /\ RowsOfCart(cart_items, v) # NoRows
          /\ \E d \in Clients \ {c} : req[d].op = "add" /\ "cart" \in req[d].did

====
